---- MODULE Spec2Model ----
(***************************************************************************)
(* A model of src/libutil/serialise.cc: the buffered sink and source, the  *)
(* descriptor-backed and memory-backed transports, and the wire codec.     *)
(* Each part of the file has its own specification over the same           *)
(* variables: SpecSink (BufferedSink / FdSink), SpecWarn (FdSink::write on *)
(* several sinks), SpecSource (BufferedSource / FdSource) and, with the    *)
(* conditions of progress, SpecSourceLive, SpecStrSrc (StringSource),      *)
(* SpecCodec (writeString, then readString, over a StringSink and a        *)
(* StringSource), SpecStrings (writeStrings, then readStrings), SpecDecode *)
(* (both readString on streams of any padding) and SpecInt (readInt and    *)
(* readLongLong on 8-byte fields of any bytes).                            *)
(***************************************************************************)
EXTENDS Integers, Sequences, FiniteSets, TLC

(* ------------------------------ bounds -------------------------------- *)

\* Capacity of the sink's and the source's buffer (bufSize, a constructor
\* argument of BufferedSink and BufferedSource).
BufSize == 3

\* Longest run handed to one push; longer than the buffer.
MaxRun == 4

\* Most bytes pushed into one sink over its life.
MaxPushed == 6

\* Largest count of one pull; larger than the buffer.
MaxPull == 4

\* Most bytes the descriptor delivers over the life of one source.
MaxStream == 7

\* Most consecutive EINTR results of ::read within one readUnbuffered call.
MaxEintr == 2

\* Most strings written to one StringSink.
MaxStrings == 2

\* Most payload bytes of the strings written to one StringSink, together.
MaxPayload == 8

\* Largest length field of the streams given to the decoder.
MaxDecLen == 7

\* Size of the caller's storage given to readString(buf, max, source).
MaxCap == 4

\* Longest string of a list given to writeStrings.
MaxItem == 2

\* Number of FdSinks that write side by side in one process.
NumSinks == 2

\* Longest byte string a StringSource is constructed over to be read
\* piece by piece; shorter than the largest request, MaxPull.
MaxSrcLen == 3

\* Most FdSink::write calls made on those sinks, together.
MaxWrites == 4

\* Byte values of the runs pushed into a sink.
DataBytes == {0, 1}

\* Byte values of string payloads, of padding regions given to the decoder
\* (0 and a nonzero byte), and of the 8-byte fields given to readInt (the
\* extremes of a byte and of its sign bit).
PayloadBytes == {0, 1}
PadBytes == {0, 1}
IntBytes == {0, 1, 128, 255}

(* --------------------------- program constants ------------------------ *)

\* size_t threshold = 256 * 1024 * 1024;
threshold == 268435456

\* Lengths of the writes made on the FdSinks of one process: one byte and
\* as many bytes as the threshold.
WriteLens == {1, threshold}

(* ------------------------------ helpers ------------------------------- *)

Min(a, b) == IF a < b THEN a ELSE b

\* All sequences over S of length exactly n, and of length at most n.
SeqsOfLen(S, n) == [1..n -> S]
SeqsUpTo(S, n) == UNION {SeqsOfLen(S, k) : k \in 0..n}

\* The sequence s without its first n elements.
Drop(s, n) == SubSeq(s, n + 1, Len(s))

(* ------------------------------- state -------------------------------- *)

VARIABLES
    \* BufferedSink / FdSink
    bufPos,         \* BufferedSink::bufPos
    buffer,         \* BufferedSink::buffer, bufSize bytes
    sinkGood,       \* FdSink::_good
    written,        \* FdSink::written
    warn,           \* FdSink::warn
    warned,         \* the static flag of FdSink::write
    sinkAlive,      \* FALSE once ~FdSink has run
    sinkOp,         \* the last call made on the sink
    pushed,         \* history: every byte pushed, in push order
    handed,         \* history: every byte handed to FdSink::write, in order
    writeFailed,    \* history: some writeFull call has thrown SysError
    nWrites,        \* history: the number of FdSink::write calls made
    lastWriteOk,    \* history: the writeFull of the last of them returned
    diag,           \* history: the number of warnLargeDump() calls made
    sinkExc         \* the exception the last call on the sink let out to
                    \* its caller, or "none"

sinkVars == <<bufPos, buffer, sinkGood, written, warn, warned, sinkAlive,
              sinkOp, pushed, handed, writeFailed, nWrites, lastWriteOk,
              diag, sinkExc>>

VARIABLES
    \* BufferedSource / FdSource
    bufPosIn,       \* BufferedSource::bufPosIn
    bufPosOut,      \* BufferedSource::bufPosOut
    srcBuffer,      \* BufferedSource::buffer, bufSize bytes
    srcGood,        \* FdSource::_good
    fdRead,         \* FdSource::read, the running total
    pc,             \* where the caller of the source is: "idle" (no call in
                    \* progress), "pull" (in the loop of Source::operator()),
                    \* "sysread" (in the do-loop of readUnbuffered)
    pullCount,      \* len of the pull in progress or last made
    pullLen,        \* len still wanted by that pull
    pullData,       \* the bytes that pull has stored at data so far
    srcErr,         \* the exception that ended the last pull, or "none"
    eintrs,         \* history: EINTR results within the current readUnbuffered
    sysRes,         \* history: the result of the last ::read of the current
                    \* or last readUnbuffered: "none" before the first,
                    \* "EINTR", "error", "zero" or "data"
    fdStream,       \* history: every byte ::read has delivered, in order
    delivered       \* history: every byte read() has returned, in order

srcVars == <<bufPosIn, bufPosOut, srcBuffer, srcGood, fdRead, pc, pullCount,
             pullLen, pullData, srcErr, eintrs, sysRes, fdStream, delivered>>

VARIABLES
    \* StringSink, StringSource and the caller of the codec
    sinkS,          \* *StringSink::s
    strWarned,      \* the static flag of StringSink::operator()
    srcS,           \* StringSource::s
    srcPos,         \* StringSource::pos
    phase,          \* "write" while the sink is written, "read" once a
                    \* StringSource reads, "idle" when the codec is not used
    wrote,          \* history: the strings given to writeString, in order
    decoded,        \* history: the strings readString has returned, in order
    nReads,         \* history: the number of decoding calls made
    opKind,         \* the last codec call
    opErr,          \* the exception it threw, or "none"
    opVal,          \* what it returned
    opPos0,         \* history: StringSource::pos when it was called
    opMax,          \* its max argument (readString(buf, max, source))
    callerBuf       \* the storage at buf of readString(buf, max, source)

codecVars == <<sinkS, strWarned, srcS, srcPos, phase, wrote, decoded, nReads,
               opKind, opErr, opVal, opPos0, opMax, callerBuf>>

VARIABLES
    \* the FdSinks of one process, side by side
    fds,            \* for each of them its written, warn and _good, and as
                    \* history whether a write of it has failed and the
                    \* number of writes made on it
    lastW           \* history: the last FdSink::write call made on one of
                    \* them: the sink, len, and whether writeFull returned

fleetVars == <<fds, lastW>>

vars == <<sinkVars, srcVars, codecVars, fleetVars>>

\* What a call on a StringSink leaves alone of the FdSink: all but the
\* count of warnLargeDump() calls.
sinkButDiag == <<bufPos, buffer, sinkGood, written, warn, warned, sinkAlive,
                 sinkOp, pushed, handed, writeFailed, nWrites, lastWriteOk,
                 sinkExc>>

(* ------------------- BufferedSink and FdSink (lines 11-77) ------------- *)

\* The sink as one value, so that the methods compose as they call each
\* other.  exc is the exception in flight, "none" when a call is entered.
SinkState ==
    [bufPos |-> bufPos, buffer |-> buffer, good |-> sinkGood,
     written |-> written, warn |-> warn, warned |-> warned,
     handed |-> handed, failed |-> writeFailed, writes |-> nWrites,
     lastOk |-> lastWriteOk, diag |-> diag, exc |-> "none"]

\* FdSink::write that has no catch clause (mutant of FdSinkWriteLen)
FdSinkWriteLenNoCatch(st, len, ok) ==
    LET w == st.written + len
        fire == st.warn /\ ~st.warned /\ w > threshold
    IN [st EXCEPT !.written = w,
                  !.warned = IF fire THEN TRUE ELSE @,
                  !.diag = IF fire THEN @ + 1 ELSE @,
                  !.failed = @ \/ ~ok,
                  !.writes = @ + 1,
                  !.lastOk = ok,
                  !.exc = IF ok THEN "none" ELSE "SysError"]

\* FdSink::write that warns on every write above the threshold (mutant of
\* FdSinkWriteLen)
FdSinkWriteLenNoLatch(st, len, ok) ==
    LET w == st.written + len
        fire == st.warn /\ w > threshold
    IN [st EXCEPT !.written = w,
                  !.warned = IF fire THEN TRUE ELSE @,
                  !.diag = IF fire THEN @ + 1 ELSE @,
                  !.good = IF ok THEN @ ELSE TRUE,
                  !.failed = @ \/ ~ok,
                  !.writes = @ + 1,
                  !.lastOk = ok,
                  !.exc = "none"]

\* FdSink::write(data, len), but for the bytes at data.  ok says whether
\* writeFull returns (TRUE) or throws SysError (FALSE); the catch clause
\* takes the SysError, assigns _good, and write returns.
FdSinkWriteLen(st, len, ok) ==
    LET w == st.written + len
        fire == st.warn /\ ~st.warned /\ w > threshold
        thrown == IF ok THEN "none" ELSE "SysError"
    IN [st EXCEPT !.written = w,
                  !.warned = IF fire THEN TRUE ELSE @,
                  !.diag = IF fire THEN @ + 1 ELSE @,
                  !.good = IF thrown = "SysError" THEN TRUE ELSE @,
                  !.failed = @ \/ ~ok,
                  !.writes = @ + 1,
                  !.lastOk = ok,
                  !.exc = IF thrown = "SysError" THEN "none" ELSE thrown]

\* FdSink::write(data, len): writeFull(fd, data, len) is given the bytes.
FdSinkWrite(st, data, ok) ==
    [FdSinkWriteLen(st, Len(data), ok) EXCEPT !.handed = @ \o data]

\* FdSink::good()
FdSinkGood(st) == st.good

\* flush() that leaves bufPos as it is (mutant of Flush)
FlushNoReset(st, ok) ==
    IF st.bufPos = 0 THEN st
    ELSE FdSinkWrite(st, SubSeq(st.buffer, 1, st.bufPos), ok)

\* flush() that assigns bufPos = 0 after write has returned from a
\* successful writeFull (mutant of Flush)
FlushResetOnSuccess(st, ok) ==
    IF st.bufPos = 0 THEN st
    ELSE LET w == FdSinkWrite(st, SubSeq(st.buffer, 1, st.bufPos), ok)
         IN IF ok THEN [w EXCEPT !.bufPos = 0] ELSE w

\* BufferedSink::flush()
Flush(st, ok) ==
    IF st.bufPos = 0 THEN st
    ELSE LET n == st.bufPos
         IN FdSinkWrite([st EXCEPT !.bufPos = 0], SubSeq(st.buffer, 1, n), ok)

\* memcpy(buffer.get() + bufPos, data, n)
CopyIn(buf, at, data, n) ==
    [i \in 1..BufSize |->
        IF i > at /\ i <= at + n THEN data[i - at] ELSE buf[i]]

\* operator() that does not flush before it bypasses the buffer (mutant of
\* BufferedSinkPush)
BufferedSinkPushNoFlush(st, data, ok1, ok2) ==
    IF Len(data) = 0 THEN st
    ELSE IF st.bufPos + Len(data) >= BufSize
         THEN FdSinkWrite(st, data, ok2)
         ELSE [st EXCEPT !.buffer = CopyIn(@, st.bufPos, data, Len(data)),
                         !.bufPos = @ + Len(data)]

\* BufferedSink::operator()(data, len): the while loop.  ok1 is the outcome
\* of the write made by flush(), ok2 of the write of the run itself.  An
\* exception of flush() or write() leaves the function.
RECURSIVE BufferedSinkPush(_, _, _, _)
BufferedSinkPush(st, data, ok1, ok2) ==
    IF Len(data) = 0 THEN st
    ELSE IF st.bufPos + Len(data) >= BufSize
         THEN LET f == Flush(st, ok1)
              IN IF f.exc # "none" THEN f ELSE FdSinkWrite(f, data, ok2)
         ELSE LET n == IF st.bufPos + Len(data) > BufSize
                       THEN BufSize - st.bufPos ELSE Len(data)
                  st1 == [st EXCEPT !.buffer = CopyIn(@, st.bufPos, data, n),
                                    !.bufPos = @ + n]
                  st2 == IF st1.bufPos = BufSize THEN Flush(st1, ok1) ELSE st1
              IN IF st2.exc # "none" THEN st2
                 ELSE BufferedSinkPush(st2, Drop(data, n), ok1, ok2)

SetSink(st) ==
    /\ bufPos' = st.bufPos
    /\ buffer' = st.buffer
    /\ sinkGood' = st.good
    /\ written' = st.written
    /\ warned' = st.warned
    /\ handed' = st.handed
    /\ writeFailed' = st.failed
    /\ nWrites' = st.writes
    /\ lastWriteOk' = st.lastOk
    /\ diag' = st.diag
    /\ UNCHANGED warn

\* A fresh FdSink: bufPos(0), _good(true), written(0); the buffer is
\* new unsigned char[bufSize], whose bytes are indeterminate.
SinkInit ==
    /\ bufPos = 0
    /\ buffer \in SeqsOfLen(DataBytes, BufSize)
    /\ sinkGood = TRUE
    /\ written = 0
    /\ warn \in BOOLEAN
    /\ warned = FALSE
    /\ sinkAlive = TRUE
    /\ sinkOp = "none"
    /\ pushed = <<>>
    /\ handed = <<>>
    /\ writeFailed = FALSE
    /\ nWrites = 0
    /\ lastWriteOk = TRUE
    /\ diag = 0
    /\ sinkExc = "none"

\* sink(data, len) on an FdSink
Push ==
    /\ sinkAlive
    /\ \E len \in 0..Min(MaxRun, MaxPushed - Len(pushed)) :
       \E data \in SeqsOfLen(DataBytes, len) :
       \E ok1, ok2 \in BOOLEAN :
          LET st == BufferedSinkPush(SinkState, data, ok1, ok2)
          IN /\ SetSink(st)
             /\ sinkExc' = st.exc
             /\ pushed' = pushed \o data
    /\ sinkOp' = "push"
    /\ UNCHANGED sinkAlive
    /\ UNCHANGED <<srcVars, codecVars, fleetVars>>

\* sink.flush()
FlushCall ==
    /\ sinkAlive
    /\ \E ok \in BOOLEAN :
          LET st == Flush(SinkState, ok)
          IN SetSink(st) /\ sinkExc' = st.exc
    /\ sinkOp' = "flush"
    /\ UNCHANGED <<sinkAlive, pushed>>
    /\ UNCHANGED <<srcVars, codecVars, fleetVars>>

\* FdSink::~FdSink(): try { flush(); } catch (...) { ignoreException(); }
FdSinkDtor ==
    /\ sinkAlive
    /\ \E ok \in BOOLEAN : SetSink(Flush(SinkState, ok))
    /\ sinkExc' = "none"
    /\ sinkAlive' = FALSE
    /\ sinkOp' = "dtor"
    /\ UNCHANGED pushed
    /\ UNCHANGED <<srcVars, codecVars, fleetVars>>

\* The i-th FdSink of the process as a value for FdSink::write; warned and
\* diag belong to the function, not to the sink.
FleetSink(i) ==
    [written |-> fds[i].written, warn |-> fds[i].warn, good |-> fds[i].good,
     failed |-> fds[i].failed, writes |-> fds[i].writes, lastOk |-> TRUE,
     warned |-> warned, diag |-> diag, exc |-> "none"]

\* No FdSink besides the one of sinkVars.
FleetParked ==
    /\ fds = <<>>
    /\ lastW = [sink |-> 0, len |-> 0, ok |-> TRUE]

\* NumSinks fresh FdSinks, each with its own warn, and no write made yet.
FleetInit ==
    /\ fds \in [1..NumSinks ->
                  {[written |-> 0, warn |-> w, good |-> TRUE,
                    failed |-> FALSE, writes |-> 0] : w \in BOOLEAN}]
    /\ lastW = [sink |-> 0, len |-> 0, ok |-> TRUE]

RECURSIVE WritesUpTo(_)
WritesUpTo(i) == IF i = 0 THEN 0 ELSE fds[i].writes + WritesUpTo(i - 1)

\* write(data, len) on one of the FdSinks of the process
FleetWrite ==
    /\ WritesUpTo(NumSinks) < MaxWrites
    /\ \E i \in 1..NumSinks :
       \E len \in WriteLens :
       \E ok \in BOOLEAN :
          LET st == FdSinkWriteLen(FleetSink(i), len, ok)
          IN /\ fds' = [fds EXCEPT ![i] =
                          [written |-> st.written, warn |-> st.warn,
                           good |-> st.good, failed |-> st.failed,
                           writes |-> st.writes]]
             /\ warned' = st.warned
             /\ diag' = st.diag
             /\ lastW' = [sink |-> i, len |-> len, ok |-> ok]
    /\ UNCHANGED <<bufPos, buffer, sinkGood, written, warn, sinkAlive, sinkOp,
                   pushed, handed, writeFailed, nWrites, lastWriteOk, sinkExc>>
    /\ UNCHANGED <<srcVars, codecVars>>

(* --------------- BufferedSource and FdSource (lines 80-127) ------------ *)

SrcState ==
    [bufPosIn |-> bufPosIn, bufPosOut |-> bufPosOut, buffer |-> srcBuffer,
     good |-> srcGood, read |-> fdRead, pc |-> pc, pullLen |-> pullLen,
     pullData |-> pullData, err |-> srcErr, delivered |-> delivered]

\* errno values of a failed ::read other than EINTR
HardErrnos == {"EIO", "EBADF"}

\* throw: nothing between readUnbuffered and the caller of pull catches, so
\* the exception unwinds through read() and Source::operator().
Throw(st, e) == [st EXCEPT !.pc = "idle", !.err = e]

\* The copy out of the window that leaves the cursors where they are when
\* the window is drained (mutant of CopyOut)
CopyOutNoReset(st) ==
    LET len == st.pullLen
        n == IF len > st.bufPosIn - st.bufPosOut
             THEN st.bufPosIn - st.bufPosOut ELSE len
        data == SubSeq(st.buffer, st.bufPosOut + 1, st.bufPosOut + n)
    IN [st EXCEPT !.bufPosOut = @ + n,
                  !.pullData = @ \o data,
                  !.delivered = @ \o data,
                  !.pullLen = len - n,
                  !.pc = IF len - n = 0 THEN "idle" ELSE "pull"]

\* BufferedSource::read lines 95-100 (copy out of the window), then lines
\* 84-85 of Source::operator(): data += n; len -= n; and the loop test.
CopyOut(st) ==
    LET len == st.pullLen
        n == IF len > st.bufPosIn - st.bufPosOut
             THEN st.bufPosIn - st.bufPosOut ELSE len
        data == SubSeq(st.buffer, st.bufPosOut + 1, st.bufPosOut + n)
        out == st.bufPosOut + n
        drained == (st.bufPosIn = out)
    IN [st EXCEPT !.bufPosOut = IF drained THEN 0 ELSE out,
                  !.bufPosIn = IF drained THEN 0 ELSE @,
                  !.pullData = @ \o data,
                  !.delivered = @ \o data,
                  !.pullLen = len - n,
                  !.pc = IF len - n = 0 THEN "idle" ELSE "pull"]

\* read() that refills whether or not the window is empty (mutant of
\* BufferedSourceRead)
BufferedSourceReadAlways(st) == [st EXCEPT !.pc = "sysread"]

\* read() that refills when the window holds less than is wanted (mutant
\* of BufferedSourceRead)
BufferedSourceReadEager(st) ==
    IF st.bufPosIn - st.bufPosOut < st.pullLen
    THEN [st EXCEPT !.pc = "sysread"] ELSE CopyOut(st)

\* BufferedSource::read up to the call of readUnbuffered (line 93): with
\* bufPosIn = 0 the descriptor is read, otherwise the window is served.
BufferedSourceRead(st) ==
    IF st.bufPosIn = 0 THEN [st EXCEPT !.pc = "sysread"] ELSE CopyOut(st)

\* readUnbuffered that does not test errno: EINTR fails like any other
\* error (mutant of FdSourceAfterRead)
FdSourceAfterReadNoRetry(st, n, errno, chunk) ==
    IF n = -1 THEN Throw([st EXCEPT !.good = FALSE], "SysError")
    ELSE IF n = 0 THEN Throw([st EXCEPT !.good = FALSE], "EndOfFile")
    ELSE CopyOut([st EXCEPT
            !.read = @ + n,
            !.buffer = [i \in 1..BufSize |-> IF i <= n THEN chunk[i] ELSE @[i]],
            !.bufPosIn = n])

\* readUnbuffered that leaves _good alone at end of file (mutant of
\* FdSourceAfterRead)
FdSourceAfterReadEofHealthy(st, n, errno, chunk) ==
    IF n = -1 /\ errno = "EINTR" THEN st
    ELSE IF n = -1 THEN Throw([st EXCEPT !.good = FALSE], "SysError")
    ELSE IF n = 0 THEN Throw(st, "EndOfFile")
    ELSE CopyOut([st EXCEPT
            !.read = @ + n,
            !.buffer = [i \in 1..BufSize |-> IF i <= n THEN chunk[i] ELSE @[i]],
            !.bufPosIn = n])

\* readUnbuffered that returns the 0 of ::read to read() (mutant of
\* FdSourceAfterRead)
FdSourceAfterReadZeroReturned(st, n, errno, chunk) ==
    IF n = -1 /\ errno = "EINTR" THEN st
    ELSE IF n = -1 THEN Throw([st EXCEPT !.good = FALSE], "SysError")
    ELSE CopyOut([st EXCEPT
            !.read = @ + n,
            !.buffer = [i \in 1..BufSize |-> IF i <= n THEN chunk[i] ELSE @[i]],
            !.bufPosIn = n])

\* FdSource::readUnbuffered from the return of one ::read(fd, data, bufSize)
\* (lines 116-120): n is its result, errno its error, chunk the n bytes it
\* stored at data, which is buffer.get().  On return, line 93 assigns
\* bufPosIn and read() goes on to copy out.
FdSourceAfterRead(st, n, errno, chunk) ==
    IF n = -1 /\ errno = "EINTR" THEN st
    ELSE IF n = -1 THEN Throw([st EXCEPT !.good = FALSE], "SysError")
    ELSE IF n = 0 THEN Throw([st EXCEPT !.good = FALSE], "EndOfFile")
    ELSE CopyOut([st EXCEPT
            !.read = @ + n,
            !.buffer = [i \in 1..BufSize |-> IF i <= n THEN chunk[i] ELSE @[i]],
            !.bufPosIn = n])

\* FdSource::good()
FdSourceGood(st) == st.good

\* BufferedSource::hasData()
HasData(st) == st.bufPosOut < st.bufPosIn

SetSrc(st) ==
    /\ bufPosIn' = st.bufPosIn
    /\ bufPosOut' = st.bufPosOut
    /\ srcBuffer' = st.buffer
    /\ srcGood' = st.good
    /\ fdRead' = st.read
    /\ pc' = st.pc
    /\ pullLen' = st.pullLen
    /\ pullData' = st.pullData
    /\ srcErr' = st.err
    /\ delivered' = st.delivered

\* A fresh FdSource: bufPosIn(0), bufPosOut(0), _good(true), read(0).  The
\* buffer is new unsigned char[bufSize]; read() returns none of its bytes
\* before ::read has stored them, and they start as 0 here.
SrcInit ==
    /\ bufPosIn = 0
    /\ bufPosOut = 0
    /\ srcBuffer = [i \in 1..BufSize |-> 0]
    /\ srcGood = TRUE
    /\ fdRead = 0
    /\ pc = "idle"
    /\ pullCount = 0
    /\ pullLen = 0
    /\ pullData = <<>>
    /\ srcErr = "none"
    /\ eintrs = 0
    /\ sysRes = "none"
    /\ fdStream = <<>>
    /\ delivered = <<>>

\* source(data, len): entry of Source::operator() and its first loop test
PullCall ==
    /\ pc = "idle"
    /\ \E count \in 0..MaxPull :
          /\ pullCount' = count
          /\ SetSrc([SrcState EXCEPT !.pullLen = count, !.pullData = <<>>,
                                     !.err = "none",
                                     !.pc = IF count = 0 THEN "idle" ELSE "pull"])
    /\ UNCHANGED <<eintrs, sysRes, fdStream>>
    /\ UNCHANGED <<sinkVars, codecVars, fleetVars>>

\* size_t n = read(data, len) in the loop of Source::operator()
ReadCall ==
    /\ pc = "pull"
    /\ SetSrc(BufferedSourceRead(SrcState))
    /\ eintrs' = 0
    /\ sysRes' = "none"
    /\ UNCHANGED <<pullCount, fdStream>>
    /\ UNCHANGED <<sinkVars, codecVars, fleetVars>>

\* checkInterrupt() throws Interrupted
CheckInterruptThrows ==
    /\ pc = "sysread"
    /\ SetSrc(Throw(SrcState, "Interrupted"))
    /\ UNCHANGED <<pullCount, eintrs, sysRes, fdStream>>
    /\ UNCHANGED <<sinkVars, codecVars, fleetVars>>

\* The k-th byte of the descriptor's stream: every byte differs from the
\* others and from what the buffer holds at first.
StreamByte(k) == k

\* ::read stores n >= 1 bytes, at most bufSize: the next n of the stream
SysReadData ==
    /\ pc = "sysread"
    /\ \E n \in 1..Min(BufSize, MaxStream - Len(fdStream)) :
          LET chunk == [i \in 1..n |-> StreamByte(Len(fdStream) + i)]
          IN /\ SetSrc(FdSourceAfterRead(SrcState, n, "none", chunk))
             /\ fdStream' = fdStream \o chunk
    /\ sysRes' = "data"
    /\ UNCHANGED <<pullCount, eintrs>>
    /\ UNCHANGED <<sinkVars, codecVars, fleetVars>>

\* ::read fails with EINTR
SysReadEintr ==
    /\ pc = "sysread"
    /\ eintrs < MaxEintr
    /\ SetSrc(FdSourceAfterRead(SrcState, -1, "EINTR", <<>>))
    /\ eintrs' = eintrs + 1
    /\ sysRes' = "EINTR"
    /\ UNCHANGED <<pullCount, fdStream>>
    /\ UNCHANGED <<sinkVars, codecVars, fleetVars>>

\* ::read fails with another error
SysReadFail ==
    /\ pc = "sysread"
    /\ \E errno \in HardErrnos :
          SetSrc(FdSourceAfterRead(SrcState, -1, errno, <<>>))
    /\ sysRes' = "error"
    /\ UNCHANGED <<pullCount, eintrs, fdStream>>
    /\ UNCHANGED <<sinkVars, codecVars, fleetVars>>

\* ::read returns 0: end of file
SysReadZero ==
    /\ pc = "sysread"
    /\ SetSrc(FdSourceAfterRead(SrcState, 0, "none", <<>>))
    /\ sysRes' = "zero"
    /\ UNCHANGED <<pullCount, eintrs, fdStream>>
    /\ UNCHANGED <<sinkVars, codecVars, fleetVars>>

(* ------------- StringSource and StringSink (lines 130-136, 273-281) ---- *)

\* read that advances pos by len whatever is left (mutant of
\* StringSourceRead)
StringSourceReadUnclamped(st, len) ==
    IF st.pos = Len(st.s)
    THEN [err |-> "EndOfFile", n |-> 0, data |-> <<>>, st |-> st]
    ELSE [err |-> "none", n |-> len,
          data |-> SubSeq(st.s, st.pos + 1, Min(st.pos + len, Len(st.s))),
          st |-> [st EXCEPT !.pos = @ + len]]

\* StringSource::read(data, len) on st = [s, pos]
StringSourceRead(st, len) ==
    IF st.pos = Len(st.s)
    THEN [err |-> "EndOfFile", n |-> 0, data |-> <<>>, st |-> st]
    ELSE LET n == Min(len, Len(st.s) - st.pos)   \* s.copy(data, len, pos)
         IN [err |-> "none", n |-> n,
             data |-> SubSeq(st.s, st.pos + 1, st.pos + n),
             st |-> [st EXCEPT !.pos = @ + n]]

\* Source::operator()(data, len) on a StringSource: the loop of reads.  acc
\* is what has been stored at data so far; an exception of read leaves it.
RECURSIVE SourcePull(_, _, _)
SourcePull(st, len, acc) ==
    IF len = 0 THEN [err |-> "none", data |-> acc, st |-> st]
    ELSE LET r == StringSourceRead(st, len)
         IN IF r.err # "none"
            THEN [err |-> r.err, data |-> acc, st |-> r.st]
            ELSE SourcePull(r.st, len - r.n, acc \o r.data)

\* StringSink::operator()(data, len) on sk = [s, warned, diag]: warned is
\* the function's own static flag, diag the count of warnLargeDump() calls
\* made in the process; the size tested is the one before the append.
StringSinkPush(sk, data) ==
    LET fire == ~sk.warned /\ Len(sk.s) > threshold
    IN [s |-> sk.s \o data,
        warned |-> IF fire THEN TRUE ELSE sk.warned,
        diag |-> IF fire THEN sk.diag + 1 ELSE sk.diag]

(* ---------------------- wire codec (lines 139-244) --------------------- *)

\* n >> (8 * k)
RECURSIVE ShiftRight8(_, _)
ShiftRight8(n, k) == IF k = 0 THEN n ELSE ShiftRight8(n \div 256, k - 1)

\* sink << n for an integer n: 8 bytes, least significant first
WriteInt(n, sk) ==
    StringSinkPush(sk, [i \in 1..8 |-> ShiftRight8(n, i - 1) % 256])

\* writePadding without the test of len % 8 (mutant of WritePadding)
WritePaddingAlways(len, sk) ==
    StringSinkPush(sk, [i \in 1..(8 - (len % 8)) |-> 0])

\* writePadding(len, sink)
WritePadding(len, sk) ==
    IF len % 8 # 0
    THEN StringSinkPush(sk, [i \in 1..(8 - (len % 8)) |-> 0])
    ELSE sk

\* writeString(buf, len, sink)
WriteString(buf, sk) ==
    WritePadding(Len(buf), StringSinkPush(WriteInt(Len(buf), sk), buf))

\* readPadding that pulls len % 8 bytes (mutant of ReadPadding)
ReadPaddingWrongCount(len, st) ==
    IF len % 8 # 0
    THEN LET n == len % 8
             p == SourcePull(st, n, <<>>)
         IN IF p.err # "none" THEN [err |-> p.err, st |-> p.st]
            ELSE IF \E i \in 1..n : p.data[i] # 0
                 THEN [err |-> "SerialisationError", st |-> p.st]
                 ELSE [err |-> "none", st |-> p.st]
    ELSE [err |-> "none", st |-> st]

\* readPadding that tests zero[0] alone (mutant of ReadPadding)
ReadPaddingFirstOnly(len, st) ==
    IF len % 8 # 0
    THEN LET n == 8 - (len % 8)
             p == SourcePull(st, n, <<>>)
         IN IF p.err # "none" THEN [err |-> p.err, st |-> p.st]
            ELSE IF p.data[1] # 0
                 THEN [err |-> "SerialisationError", st |-> p.st]
                 ELSE [err |-> "none", st |-> p.st]
    ELSE [err |-> "none", st |-> st]

\* readPadding(len, source)
ReadPadding(len, st) ==
    IF len % 8 # 0
    THEN LET n == 8 - (len % 8)
             p == SourcePull(st, n, <<>>)
         IN IF p.err # "none" THEN [err |-> p.err, st |-> p.st]
            ELSE IF \E i \in 1..n : p.data[i] # 0
                 THEN [err |-> "SerialisationError", st |-> p.st]
                 ELSE [err |-> "none", st |-> p.st]
    ELSE [err |-> "none", st |-> st]

\* (int) b << 24 for a byte b: the shift reaches the sign bit, and the int
\* it yields is negative from b = 128 on.
Shl24(b) == (IF b >= 128 THEN b - 256 ELSE b) * 16777216

\* int to unsigned int (the conversion of the return statement).  An
\* unsigned int is held as its two 16-bit halves, hi * 65536 + lo: the
\* checker's integers end at 2^31 - 1.
IntToUnsigned(x) == [hi |-> (x \div 65536) % 65536, lo |-> x % 65536]

\* unsigned int to size_t (size_t len = readInt(source))
ToSize(u) == u.hi * 65536 + u.lo

\* readInt that tests buf[4] alone (mutant of ReadInt)
ReadIntLowCheck(st) ==
    LET p == SourcePull(st, 8, <<>>)
        buf == p.data
    IN IF p.err # "none" THEN [err |-> p.err, val |-> IntToUnsigned(0), st |-> p.st]
       ELSE IF buf[5] # 0
            THEN [err |-> "SerialisationError", val |-> IntToUnsigned(0),
                  st |-> p.st]
            ELSE [err |-> "none",
                  val |-> IntToUnsigned(buf[1] + buf[2] * 256 + buf[3] * 65536
                                            + Shl24(buf[4])),
                  st |-> p.st]

\* readInt(source).  The bytes are promoted to int and the four shifted
\* bytes occupy disjoint bits, so that | adds them.
ReadInt(st) ==
    LET p == SourcePull(st, 8, <<>>)
        buf == p.data
    IN IF p.err # "none" THEN [err |-> p.err, val |-> IntToUnsigned(0), st |-> p.st]
       ELSE IF buf[5] # 0 \/ buf[6] # 0 \/ buf[7] # 0 \/ buf[8] # 0
            THEN [err |-> "SerialisationError", val |-> IntToUnsigned(0),
                  st |-> p.st]
            ELSE [err |-> "none",
                  val |-> IntToUnsigned(buf[1] + buf[2] * 256 + buf[3] * 65536
                                            + Shl24(buf[4])),
                  st |-> p.st]

\* readLongLong(source).  The unsigned long long it returns is held as its
\* four 16-bit words, ((w3 * 65536 + w2) * 65536 + w1) * 65536 + w0: the
\* checker's integers end at 2^31 - 1.  No byte is tested.
ReadLongLong(st) ==
    LET p == SourcePull(st, 8, <<>>)
        buf == p.data
    IN IF p.err # "none"
       THEN [err |-> p.err, val |-> [w3 |-> 0, w2 |-> 0, w1 |-> 0, w0 |-> 0],
             st |-> p.st]
       ELSE [err |-> "none",
             val |-> [w3 |-> buf[7] + buf[8] * 256,
                      w2 |-> buf[5] + buf[6] * 256,
                      w1 |-> buf[3] + buf[4] * 256,
                      w0 |-> buf[1] + buf[2] * 256],
             st |-> p.st]

\* string readString(Source &)
ReadString(st) ==
    LET r == ReadInt(st)
        len == ToSize(r.val)
        p == SourcePull(r.st, len, <<>>)
        q == ReadPadding(len, p.st)
    IN IF r.err # "none" THEN [err |-> r.err, val |-> <<>>, st |-> r.st]
       ELSE IF p.err # "none" THEN [err |-> p.err, val |-> <<>>, st |-> p.st]
       ELSE IF q.err # "none" THEN [err |-> q.err, val |-> <<>>, st |-> q.st]
       ELSE [err |-> "none", val |-> p.data, st |-> q.st]

\* What source(buf, len) leaves in the storage at buf.
Stored(buf, data) ==
    [i \in 1..Len(buf) |-> IF i <= Len(data) THEN data[i] ELSE buf[i]]

\* readString(buf, max, source) that rejects len >= max (mutant of
\* ReadStringBuf)
ReadStringBufOffByOne(buf, max, st) ==
    LET r == ReadInt(st)
        len == ToSize(r.val)
        p == SourcePull(r.st, len, <<>>)
        q == ReadPadding(len, p.st)
    IN IF r.err # "none"
       THEN [err |-> r.err, val |-> 0, buf |-> buf, st |-> r.st]
       ELSE IF len >= max
       THEN [err |-> "Error", val |-> 0, buf |-> buf, st |-> r.st]
       ELSE IF p.err # "none"
       THEN [err |-> p.err, val |-> 0, buf |-> Stored(buf, p.data), st |-> p.st]
       ELSE IF q.err # "none"
       THEN [err |-> q.err, val |-> 0, buf |-> Stored(buf, p.data), st |-> q.st]
       ELSE [err |-> "none", val |-> len, buf |-> Stored(buf, p.data),
             st |-> q.st]

\* size_t readString(unsigned char * buf, size_t max, Source &)
ReadStringBuf(buf, max, st) ==
    LET r == ReadInt(st)
        len == ToSize(r.val)
        p == SourcePull(r.st, len, <<>>)
        q == ReadPadding(len, p.st)
    IN IF r.err # "none"
       THEN [err |-> r.err, val |-> 0, buf |-> buf, st |-> r.st]
       ELSE IF len > max
       THEN [err |-> "Error", val |-> 0, buf |-> buf, st |-> r.st]
       ELSE IF p.err # "none"
       THEN [err |-> p.err, val |-> 0, buf |-> Stored(buf, p.data), st |-> p.st]
       ELSE IF q.err # "none"
       THEN [err |-> q.err, val |-> 0, buf |-> Stored(buf, p.data), st |-> q.st]
       ELSE [err |-> "none", val |-> len, buf |-> Stored(buf, p.data),
             st |-> q.st]

\* writeStrings: for (auto & i : ss) sink << i
RECURSIVE WriteEach(_, _)
WriteEach(ss, sk) ==
    IF ss = <<>> THEN sk ELSE WriteEach(Tail(ss), WriteString(Head(ss), sk))

\* writeStrings(ss, sink): sink << ss.size(), then the strings in turn
WriteStrings(ss, sk) == WriteEach(ss, WriteInt(Len(ss), sk))

\* readStrings: while (count--) ss.insert(ss.end(), readString(source)).
\* acc is ss, held in the order of the insertions; an exception of
\* readString leaves the function and ss with it.
RECURSIVE ReadStringsLoop(_, _, _)

\* ss.insert(ss.end(), r) for the outcome r of readString(source), and the
\* rest of the loop
InsertAtEnd(r, count, acc) ==
    IF r.err # "none" THEN [err |-> r.err, val |-> <<>>, st |-> r.st]
    ELSE ReadStringsLoop(r.st, count - 1, Append(acc, r.val))

ReadStringsLoop(st, count, acc) ==
    IF count = 0 THEN [err |-> "none", val |-> acc, st |-> st]
    ELSE InsertAtEnd(ReadString(st), count, acc)

\* readStrings whose loop is while (--count) (mutant of ReadStrings); a
\* count of 0 wraps around and the loop runs into the end of the stream.
ReadStringsPreDecrement(st) ==
    LET r == ReadInt(st)
        count == ToSize(r.val)
    IN IF r.err # "none" THEN [err |-> r.err, val |-> <<>>, st |-> r.st]
       ELSE IF count = 0
            THEN [err |-> "EndOfFile", val |-> <<>>,
                  st |-> [r.st EXCEPT !.pos = Len(r.st.s)]]
            ELSE ReadStringsLoop(r.st, count - 1, <<>>)

\* readStrings<T>(source): the count, then that many strings, as the
\* sequence of the insertions made at ss.end()
ReadStrings(st) ==
    LET r == ReadInt(st)
        count == ToSize(r.val)
    IN IF r.err # "none" THEN [err |-> r.err, val |-> <<>>, st |-> r.st]
       ELSE ReadStringsLoop(r.st, count, <<>>)

\* What a Paths (a list of strings) holds after those insertions: each
\* one appends.
AsPaths(inserted) == inserted

\* What a PathSet (a set of strings) holds after those insertions: an
\* insertion of a string that is already there changes nothing.
AsPathSet(inserted) == {inserted[i] : i \in 1..Len(inserted)}

StrSrcState == [s |-> srcS, pos |-> srcPos]
StrSinkState == [s |-> sinkS, warned |-> strWarned, diag |-> diag]

\* The caller's storage before a read: MaxCap bytes of a value that no
\* stream holds.
FreshStorage == [i \in 1..MaxCap |-> 9]

\* The codec at rest: an empty StringSink, no StringSource yet.
CodecInit ==
    /\ sinkS = <<>>
    /\ strWarned = FALSE
    /\ srcS = <<>>
    /\ srcPos = 0
    /\ phase = "idle"
    /\ wrote = <<>>
    /\ decoded = <<>>
    /\ nReads = 0
    /\ opKind = "none"
    /\ opErr = "none"
    /\ opVal = 0
    /\ opPos0 = 0
    /\ opMax = 0
    /\ callerBuf = FreshStorage

RECURSIVE TotalPayload(_)
TotalPayload(ss) ==
    IF ss = <<>> THEN 0 ELSE Len(Head(ss)) + TotalPayload(Tail(ss))

\* writeString(b, len, sink) on a StringSink
WriteStringOp ==
    /\ phase = "write"
    /\ Len(wrote) < MaxStrings
    /\ \E b \in SeqsUpTo(PayloadBytes, MaxPayload - TotalPayload(wrote)) :
          LET sk == WriteString(b, StrSinkState)
          IN /\ sinkS' = sk.s
             /\ strWarned' = sk.warned
             /\ diag' = sk.diag
             /\ wrote' = Append(wrote, b)
    /\ opKind' = "writeString"
    /\ UNCHANGED <<srcS, srcPos, phase, decoded, nReads, opErr, opVal, opPos0,
                   opMax, callerBuf>>
    /\ UNCHANGED <<sinkButDiag, srcVars, fleetVars>>

\* StringSource source(*sink.s)
LoadSource ==
    /\ phase = "write"
    /\ srcS' = sinkS
    /\ srcPos' = 0
    /\ phase' = "read"
    /\ opKind' = "load"
    /\ UNCHANGED <<sinkS, strWarned, wrote, decoded, nReads, opErr, opVal,
                   opPos0, opMax, callerBuf>>
    /\ UNCHANGED <<sinkVars, srcVars, fleetVars>>

\* readString(source)
ReadStringOp ==
    /\ phase = "read"
    /\ nReads <= Len(wrote)
    /\ LET r == ReadString(StrSrcState)
       IN /\ srcPos' = r.st.pos
          /\ opErr' = r.err
          /\ opVal' = r.val
          /\ decoded' = IF r.err = "none" THEN Append(decoded, r.val)
                        ELSE decoded
    /\ opKind' = "readString"
    /\ opPos0' = srcPos
    /\ nReads' = nReads + 1
    /\ UNCHANGED <<sinkS, strWarned, srcS, phase, wrote, opMax, callerBuf>>
    /\ UNCHANGED <<sinkVars, srcVars, fleetVars>>

\* readString(buf, max, source), buf a fresh storage of MaxCap bytes
ReadStringBufOp ==
    /\ phase = "read"
    /\ nReads <= Len(wrote)
    /\ \E max \in 0..MaxCap :
          LET r == ReadStringBuf(FreshStorage, max, StrSrcState)
          IN /\ srcPos' = r.st.pos
             /\ opErr' = r.err
             /\ opVal' = r.val
             /\ callerBuf' = r.buf
             /\ opMax' = max
    /\ opKind' = "readStringBuf"
    /\ opPos0' = srcPos
    /\ nReads' = nReads + 1
    /\ UNCHANGED <<sinkS, strWarned, srcS, phase, wrote, decoded>>
    /\ UNCHANGED <<sinkVars, srcVars, fleetVars>>

\* readInt(source)
ReadIntOp ==
    /\ phase = "read"
    /\ nReads <= Len(wrote)
    /\ LET r == ReadInt(StrSrcState)
       IN /\ srcPos' = r.st.pos
          /\ opErr' = r.err
          /\ opVal' = r.val
    /\ opKind' = "readInt"
    /\ opPos0' = srcPos
    /\ nReads' = nReads + 1
    /\ UNCHANGED <<sinkS, strWarned, srcS, phase, wrote, decoded, opMax,
                   callerBuf>>
    /\ UNCHANGED <<sinkVars, srcVars, fleetVars>>

\* readLongLong(source)
ReadLongLongOp ==
    /\ phase = "read"
    /\ nReads <= Len(wrote)
    /\ LET r == ReadLongLong(StrSrcState)
       IN /\ srcPos' = r.st.pos
          /\ opErr' = r.err
          /\ opVal' = r.val
    /\ opKind' = "readLongLong"
    /\ opPos0' = srcPos
    /\ nReads' = nReads + 1
    /\ UNCHANGED <<sinkS, strWarned, srcS, phase, wrote, decoded, opMax,
                   callerBuf>>
    /\ UNCHANGED <<sinkVars, srcVars, fleetVars>>

\* writeStrings(ss, sink) on an empty StringSink, ss a list of strings
WriteStringsOp ==
    /\ phase = "write"
    /\ sinkS = <<>>
    /\ \E n \in 0..MaxStrings :
       \E ss \in SeqsOfLen(SeqsUpTo(PayloadBytes, MaxItem), n) :
          LET sk == WriteStrings(ss, StrSinkState)
          IN /\ sinkS' = sk.s
             /\ strWarned' = sk.warned
             /\ diag' = sk.diag
             /\ wrote' = ss
    /\ opKind' = "writeStrings"
    /\ UNCHANGED <<srcS, srcPos, phase, decoded, nReads, opErr, opVal, opPos0,
                   opMax, callerBuf>>
    /\ UNCHANGED <<sinkButDiag, srcVars, fleetVars>>

\* sink << n after the collection: the field that follows it in the stream
WriteIntOp ==
    /\ phase = "write"
    /\ opKind = "writeStrings"
    /\ \E n \in 0..1 :
          LET sk == WriteInt(n, StrSinkState)
          IN /\ sinkS' = sk.s
             /\ strWarned' = sk.warned
             /\ diag' = sk.diag
    /\ opKind' = "writeInt"
    /\ UNCHANGED <<srcS, srcPos, phase, wrote, decoded, nReads, opErr, opVal,
                   opPos0, opMax, callerBuf>>
    /\ UNCHANGED <<sinkButDiag, srcVars, fleetVars>>

\* readStrings<Paths>(source), on a source no one has read from
ReadPathsOp ==
    /\ phase = "read"
    /\ nReads = 0
    /\ LET r == ReadStrings(StrSrcState)
       IN /\ srcPos' = r.st.pos
          /\ opErr' = r.err
          /\ opVal' = AsPaths(r.val)
    /\ opKind' = "readPaths"
    /\ opPos0' = srcPos
    /\ nReads' = nReads + 1
    /\ UNCHANGED <<sinkS, strWarned, srcS, phase, wrote, decoded, opMax,
                   callerBuf>>
    /\ UNCHANGED <<sinkVars, srcVars, fleetVars>>

\* readStrings<PathSet>(source), on a source no one has read from
ReadPathSetOp ==
    /\ phase = "read"
    /\ nReads = 0
    /\ LET r == ReadStrings(StrSrcState)
       IN /\ srcPos' = r.st.pos
          /\ opErr' = r.err
          /\ opVal' = AsPathSet(r.val)
    /\ opKind' = "readPathSet"
    /\ opPos0' = srcPos
    /\ nReads' = nReads + 1
    /\ UNCHANGED <<sinkS, strWarned, srcS, phase, wrote, decoded, opMax,
                   callerBuf>>
    /\ UNCHANGED <<sinkVars, srcVars, fleetVars>>

\* source.read(data, len) on a StringSource
StrReadOp ==
    /\ phase = "read"
    /\ \E len \in 0..MaxPull :
          LET r == StringSourceRead(StrSrcState, len)
          IN /\ srcPos' = r.st.pos
             /\ opErr' = r.err
             /\ opVal' = [len |-> len, n |-> r.n, data |-> r.data]
    /\ opKind' = "read"
    /\ opPos0' = srcPos
    /\ UNCHANGED <<sinkS, strWarned, srcS, phase, wrote, decoded, nReads,
                   opMax, callerBuf>>
    /\ UNCHANGED <<sinkVars, srcVars, fleetVars>>

\* source(data, len) on a StringSource
StrPullOp ==
    /\ phase = "read"
    /\ \E len \in 0..MaxPull :
          LET r == SourcePull(StrSrcState, len, <<>>)
          IN /\ srcPos' = r.st.pos
             /\ opErr' = r.err
             /\ opVal' = [len |-> len, n |-> Len(r.data), data |-> r.data]
    /\ opKind' = "pull"
    /\ opPos0' = srcPos
    /\ UNCHANGED <<sinkS, strWarned, srcS, phase, wrote, decoded, nReads,
                   opMax, callerBuf>>
    /\ UNCHANGED <<sinkVars, srcVars, fleetVars>>

(* --------------------------- specifications ---------------------------- *)

\* The parts a specification does not exercise stay as constructed, with
\* one choice made for what construction leaves open.
SinkParked == SinkInit /\ warn = FALSE /\ buffer = [i \in 1..BufSize |-> 0]
SrcParked == SrcInit

\* An FdSink under pushes, flushes and its destructor.
SinkNext == Push \/ FlushCall \/ FdSinkDtor
SinkSpecInit == SinkInit /\ SrcParked /\ CodecInit /\ FleetParked
SpecSink == SinkSpecInit /\ [][SinkNext]_vars

\* An FdSource under pulls, with every outcome of ::read.
SrcNext ==
    \/ PullCall
    \/ ReadCall
    \/ CheckInterruptThrows
    \/ SysReadData
    \/ SysReadEintr
    \/ SysReadFail
    \/ SysReadZero
SrcSpecInit == SinkParked /\ SrcInit /\ CodecInit /\ FleetParked
SpecSource == SrcSpecInit /\ [][SrcNext]_vars

\* The same under the conditions of progress: the caller's loop goes on to
\* its next read(), and a ::read that is retried after EINTR comes, in the
\* end, to an outcome other than EINTR (or checkInterrupt() throws).
\* Without the second condition a behaviour may stay in the do-loop of
\* readUnbuffered for ever.
SysReadSettles ==
    SysReadData \/ SysReadFail \/ SysReadZero \/ CheckInterruptThrows
SpecSourceLive ==
    /\ SrcSpecInit
    /\ [][SrcNext]_vars
    /\ WF_vars(ReadCall)
    /\ WF_vars(SysReadSettles)

\* Strings written to a StringSink, then read back from a StringSource
\* over the bytes written.
CodecStart ==
    /\ sinkS = <<>> /\ strWarned = FALSE /\ srcS = <<>> /\ srcPos = 0
    /\ phase = "write" /\ wrote = <<>> /\ decoded = <<>> /\ nReads = 0
    /\ opKind = "none" /\ opErr = "none" /\ opVal = 0 /\ opPos0 = 0
    /\ opMax = 0 /\ callerBuf = FreshStorage
CodecNext == WriteStringOp \/ LoadSource \/ ReadStringOp
CodecSpecInit == SinkParked /\ SrcParked /\ CodecStart /\ FleetParked
SpecCodec == CodecSpecInit /\ [][CodecNext]_vars

\* A StringSource over a stream that need not come from writeString: a
\* length field, that many payload bytes, a padding region of any bytes,
\* and the first byte of a next field.
LengthField(n) == [i \in 1..8 |-> IF i = 1 THEN n ELSE 0]
PadRegion(n) == (8 - (n % 8)) % 8
DecodeStreams ==
    UNION { { LengthField(n) \o payload \o pad \o <<1>> :
                payload \in SeqsOfLen(PayloadBytes, n),
                pad \in SeqsOfLen(PadBytes, PadRegion(n)) } :
            n \in 0..MaxDecLen }
DecodeStart ==
    /\ sinkS = <<>> /\ strWarned = FALSE /\ srcS \in DecodeStreams
    /\ srcPos = 0 /\ phase = "read" /\ wrote = <<>> /\ decoded = <<>>
    /\ nReads = 0 /\ opKind = "none" /\ opErr = "none" /\ opVal = 0
    /\ opPos0 = 0 /\ opMax = 0 /\ callerBuf = FreshStorage
DecodeNext == ReadStringOp \/ ReadStringBufOp
DecodeSpecInit == SinkParked /\ SrcParked /\ DecodeStart /\ FleetParked
SpecDecode == DecodeSpecInit /\ [][DecodeNext]_vars

\* A StringSource over an 8-byte field of any bytes and one byte more.
IntStart ==
    /\ sinkS = <<>> /\ strWarned = FALSE
    /\ srcS \in {f \o <<1>> : f \in SeqsOfLen(IntBytes, 8)}
    /\ srcPos = 0 /\ phase = "read" /\ wrote = <<>> /\ decoded = <<>>
    /\ nReads = 0 /\ opKind = "none" /\ opErr = "none" /\ opVal = 0
    /\ opPos0 = 0 /\ opMax = 0 /\ callerBuf = FreshStorage
IntNext == ReadIntOp \/ ReadLongLongOp
IntSpecInit == SinkParked /\ SrcParked /\ IntStart /\ FleetParked
SpecInt == IntSpecInit /\ [][IntNext]_vars

\* A StringSource over any short byte string, under reads and pulls.
StrSrcStart ==
    /\ sinkS = <<>> /\ strWarned = FALSE
    /\ srcS \in SeqsUpTo(PayloadBytes, MaxSrcLen)
    /\ srcPos = 0 /\ phase = "read" /\ wrote = <<>> /\ decoded = <<>>
    /\ nReads = 0 /\ opKind = "none" /\ opErr = "none" /\ opVal = 0
    /\ opPos0 = 0 /\ opMax = 0 /\ callerBuf = FreshStorage
StrSrcNext == StrReadOp \/ StrPullOp
StrSrcSpecInit == SinkParked /\ SrcParked /\ StrSrcStart /\ FleetParked
SpecStrSrc == StrSrcSpecInit /\ [][StrSrcNext]_vars

\* Several FdSinks of one process under writes.
WarnNext == FleetWrite
WarnSpecInit == SinkParked /\ SrcParked /\ CodecInit /\ FleetInit
SpecWarn == WarnSpecInit /\ [][WarnNext]_vars

\* A list of strings written by writeStrings, perhaps with a field after
\* it, then read back as a Paths or as a PathSet.
StringsNext ==
    \/ WriteStringsOp
    \/ WriteIntOp
    \/ LoadSource
    \/ ReadPathsOp
    \/ ReadPathSetOp
StringsSpecInit == SinkParked /\ SrcParked /\ CodecStart /\ FleetParked
SpecStrings == StringsSpecInit /\ [][StringsNext]_vars

(* ------------------------------- claims ------------------------------- *)

\* The bytes of the sink's buffer that are still to be written.
Buffered == SubSeq(buffer, 1, bufPos)

\* C1 (SpecSink): whatever the runs pushed and the flushes between them,
\* the bytes handed to FdSink::write so far followed by the bytes buffered
\* in [0, bufPos) are the bytes pushed, in push order; after a flush or the
\* destructor every pushed byte has been handed over.
C1_PushedBytesArePreserved ==
    /\ handed \o Buffered = pushed
    /\ (sinkOp \in {"flush", "dtor"} => handed = pushed)

\* C1 witness: pushes that crossed the capacity, part written, part buffered.
C1_Witness ==
    /\ Len(pushed) = MaxPushed
    /\ Len(handed) > BufSize
    /\ bufPos > 0

\* C2 (SpecSink), the claim as stated: once a writeFull of the sink has
\* thrown SysError, good() is false.
C2_FailedWriteMarksUnhealthy == writeFailed => ~FdSinkGood(SinkState)

\* The bytes of the source's window that are still to be returned.
Window == SubSeq(srcBuffer, bufPosOut + 1, bufPosIn)

\* C3 (SpecSource): the bytes returned so far followed by the window are
\* the bytes the descriptor has delivered, in order; the bytes of a pull
\* are the last ones returned; and a pull that returns has stored exactly
\* count bytes.
C3_PullsReturnTheStream ==
    /\ delivered \o Window = fdStream
    /\ Len(pullData) <= Len(delivered)
    /\ pullData = Drop(delivered, Len(delivered) - Len(pullData))
    /\ (pc = "idle" /\ srcErr = "none" => Len(pullData) = pullCount)

\* C3 witness: a pull of more than the capacity has returned, after an
\* earlier one, and its end falls inside a chunk.
C3_Witness ==
    /\ pc = "idle" /\ srcErr = "none"
    /\ pullCount = MaxPull /\ Len(pullData) = MaxPull
    /\ Len(delivered) > MaxPull
    /\ bufPosOut > 0

\* 8 + len(b) + padding(len(b)), the length of the encoding of b
EncodedLen(b) == 8 + Len(b) + ((8 - (Len(b) % 8)) % 8)
RECURSIVE EncodedLenSum(_)
EncodedLenSum(ss) ==
    IF ss = <<>> THEN 0 ELSE EncodedLen(Head(ss)) + EncodedLenSum(Tail(ss))

\* C4 (SpecCodec): reading back what writeString wrote returns the strings
\* written, in order, one per call; each call consumes the whole encoding
\* of its string, so that pos is the total length of the encodings read.
C4_StringRoundTrip ==
    phase = "read" =>
        /\ Len(decoded) <= Len(wrote)
        /\ decoded = SubSeq(wrote, 1, Len(decoded))
        /\ (nReads <= Len(wrote) => Len(decoded) = nReads)
        /\ srcPos = EncodedLenSum(decoded)
        /\ (opKind = "readString" /\ opErr = "none" => opVal = wrote[nReads])

\* C4 witness: two strings with padding, one holding a zero byte, read back.
C4_Witness ==
    /\ phase = "read" /\ Len(wrote) = 2 /\ decoded = wrote
    /\ wrote[1] = <<1, 0, 1>> /\ Len(wrote[2]) = 5

\* The unsigned int whose 8-byte little-endian encoding is buf, as its two
\* 16-bit halves, and the encoding of such a value.
ValueOfField(buf) == [hi |-> buf[3] + 256 * buf[4], lo |-> buf[1] + 256 * buf[2]]
FieldOfValue(u) ==
    <<u.lo % 256, u.lo \div 256, u.hi % 256, u.hi \div 256, 0, 0, 0, 0>>

\* C5 (SpecInt): readInt on an 8-byte field consumes the 8 bytes; with
\* bytes 4..7 zero it returns the value the field encodes (little-endian),
\* and otherwise it throws SerialisationError.
C5_ReadIntRange ==
    (opKind = "readInt" /\ opPos0 = 0) =>
        LET buf == SubSeq(srcS, 1, 8)
            u == ValueOfField(buf)
        IN /\ srcPos = 8
           /\ IF buf[5] = 0 /\ buf[6] = 0 /\ buf[7] = 0 /\ buf[8] = 0
              THEN opErr = "none" /\ opVal = u /\ FieldOfValue(u) = buf
              ELSE opErr = "SerialisationError"

\* C5 witness: a value of 2^31 or more has been read.
C5_Witness ==
    /\ opKind = "readInt" /\ opErr = "none"
    /\ opVal.hi >= 32768 /\ opVal.lo = 1

\* The length field, payload and padding region of a decoder stream.
StreamLen == srcS[1]
StreamPayload == SubSeq(srcS, 9, 8 + StreamLen)
StreamPadding == SubSeq(srcS, 9 + StreamLen, 8 + StreamLen + PadRegion(StreamLen))
PaddingIsZero == \A i \in 1..Len(StreamPadding) : StreamPadding[i] = 0

\* C6 (SpecDecode), the claim as stated: with a length that is not a
\* multiple of 8, either readString throws SerialisationError if some
\* padding byte is nonzero, and succeeds if all are zero.
C6_Original ==
    (opKind \in {"readString", "readStringBuf"} /\ opPos0 = 0
        /\ StreamLen % 8 # 0) =>
        IF PaddingIsZero THEN opErr = "none"
        ELSE opErr = "SerialisationError"

\* C6 (SpecDecode), amended: the same, for readString(buf, max, source)
\* only when the length is at most max; the decode that succeeds returns
\* the payload.
C6_PaddingIsValidated ==
    (opKind \in {"readString", "readStringBuf"} /\ opPos0 = 0
        /\ StreamLen % 8 # 0
        /\ (opKind = "readStringBuf" => StreamLen <= opMax)) =>
        IF PaddingIsZero
        THEN /\ opErr = "none"
             /\ srcPos = 8 + StreamLen + PadRegion(StreamLen)
             /\ (opKind = "readString" => opVal = StreamPayload)
             /\ (opKind = "readStringBuf" =>
                    /\ opVal = StreamLen
                    /\ SubSeq(callerBuf, 1, StreamLen) = StreamPayload)
        ELSE opErr = "SerialisationError"

\* C6 witness: the only nonzero padding byte is the last of five, and the
\* decode has thrown SerialisationError.
C6_Witness ==
    /\ opKind = "readStringBuf" /\ opPos0 = 0
    /\ StreamLen = 3 /\ StreamPadding = <<0, 0, 0, 0, 1>>
    /\ opErr = "SerialisationError"

\* C7 (SpecDecode): readString(buf, max, source) on a length above max
\* throws Error with pos just after the length field and the storage at
\* buf as it was; a length equal to max passes the test, and the call then
\* succeeds or fails on the padding alone.
C7_CapacityIsChecked ==
    (opKind = "readStringBuf" /\ opPos0 = 0) =>
        /\ (StreamLen > opMax =>
                opErr = "Error" /\ srcPos = 8 /\ callerBuf = FreshStorage)
        /\ (StreamLen = opMax =>
                /\ opErr = IF PaddingIsZero THEN "none" ELSE "SerialisationError"
                /\ srcPos = 8 + StreamLen + PadRegion(StreamLen)
                /\ SubSeq(callerBuf, 1, StreamLen) = StreamPayload)

\* C7 witness: a length of max + 1 has been refused.
C7_Witness ==
    /\ opKind = "readStringBuf" /\ opPos0 = 0
    /\ opMax = MaxCap /\ StreamLen = opMax + 1
    /\ opErr = "Error" /\ srcPos = 8

\* C8 (SpecSource): a ::read that fails with EINTR changes nothing of the
\* source and is tried again; the ::read that succeeds after EINTR results
\* raises nothing, leaves good() as it was, counts its n bytes, and these
\* bytes, once each, are what the pull gains and what the window holds.
C8_EintrIsRetried ==
    [][ /\ (eintrs' = eintrs + 1 =>
                /\ pc' = "sysread"
                /\ <<bufPosIn, bufPosOut, srcBuffer, srcGood, fdRead, pullLen,
                      pullData, srcErr, delivered>>' =
                   <<bufPosIn, bufPosOut, srcBuffer, srcGood, fdRead, pullLen,
                     pullData, srcErr, delivered>>)
        /\ (pc = "sysread" /\ eintrs > 0 /\ sysRes' = "data" =>
                LET chunk == Drop(fdStream', Len(fdStream))
                IN /\ Len(chunk) > 0
                   /\ srcErr' = "none"
                   /\ srcGood' = srcGood
                   /\ fdRead' = fdRead + Len(chunk)
                   /\ pullData' \o Window' = pullData \o chunk) ]_vars

\* C8 witness: a read has succeeded after two EINTR results.
C8_Witness ==
    /\ eintrs = 2 /\ sysRes = "data"
    /\ srcErr = "none" /\ srcGood
    /\ Len(pullData) > 0

\* C9 (SpecSource): a ::read of zero bytes ends the pull with EndOfFile,
\* one that fails with an error other than EINTR ends it with SysError;
\* both leave good() false, and good() never becomes true again.
C9_ReadFailuresAreSticky ==
    [][ /\ (pc = "sysread" /\ sysRes' = "zero" =>
                pc' = "idle" /\ srcErr' = "EndOfFile" /\ ~srcGood')
        /\ (pc = "sysread" /\ sysRes' = "error" =>
                pc' = "idle" /\ srcErr' = "SysError" /\ ~srcGood')
        /\ (~srcGood => ~srcGood') ]_vars

\* C9 witness: after an end of file, a later pull has returned bytes and
\* good() is still false.
C9_Witness ==
    /\ ~srcGood /\ sysRes = "data"
    /\ pc = "idle" /\ srcErr = "none" /\ Len(pullData) > 0

\* The encoding the wire format gives a string: its length as 8 bytes,
\* least significant first, its bytes, and zero bytes up to a multiple of 8.
WireOf(b) ==
    <<Len(b) % 256, (Len(b) \div 256) % 256, 0, 0, 0, 0, 0, 0>>
        \o b \o [i \in 1..((8 - (Len(b) % 8)) % 8) |-> 0]
RECURSIVE WireOfAll(_)
WireOfAll(ss) == IF ss = <<>> THEN <<>> ELSE WireOf(Head(ss)) \o WireOfAll(Tail(ss))

\* C10 (SpecCodec): what writeString hands the sink for b is the length
\* field, the bytes of b and (8 - len % 8) % 8 zero bytes, in this order
\* and nothing else, so that the sink always holds a multiple of 8 bytes.
C10_EncodingLayout ==
    /\ sinkS = WireOfAll(wrote)
    /\ Len(sinkS) = EncodedLenSum(wrote)
    /\ Len(sinkS) % 8 = 0

\* C10 witness: a string of 8 bytes and the empty string have been
\* written, neither with padding.
C10_Witness ==
    /\ Len(wrote) = 2 /\ Len(wrote[1]) = 8 /\ wrote[2] = <<>>
    /\ Len(sinkS) = 24

\* The sink holds a list written by writeStrings (nothing else writes
\* first into the empty sink).
ListWritten == sinkS # <<>>

\* C11 (SpecStrings): a list of strings written by writeStrings and read
\* back by readStrings comes back, as a Paths, as the same strings in the
\* same order with its duplicates, and as a PathSet as the set of its
\* distinct strings; either read succeeds and consumes the count field and
\* the encodings of the strings, and nothing of what follows them.
C11_StringsRoundTrip ==
    /\ (ListWritten /\ opKind = "readPaths") =>
          /\ opErr = "none"
          /\ opVal = wrote
          /\ srcPos = 8 + EncodedLenSum(wrote)
    /\ (ListWritten /\ opKind = "readPathSet") =>
          /\ opErr = "none"
          /\ opVal = {wrote[i] : i \in 1..Len(wrote)}
          /\ srcPos = 8 + EncodedLenSum(wrote)

\* A list with the same non-empty string twice and a field after it, read
\* back as a PathSet of one string.
C11_Witness ==
    /\ opKind = "readPathSet"
    /\ Len(wrote) = MaxStrings
    /\ wrote[1] = wrote[2]
    /\ Len(wrote[1]) > 0
    /\ opVal = {wrote[1]}
    /\ srcPos < Len(srcS)

\* C12 (SpecSink): bufPos never exceeds the capacity of the buffer; in
\* every reachable state flush() leaves bufPos at 0 whether its write
\* succeeds or fails; and every call leaves bufPos at 0 that is a flush(),
\* the destructor's flush(), or a push that reached FdSink::write, which a
\* push only does behind its own flush().
C12_BufPosBounded ==
    /\ [](/\ bufPos <= BufSize
          /\ \A ok \in BOOLEAN : Flush(SinkState, ok).bufPos = 0)
    /\ [][(nWrites' > nWrites \/ sinkOp' \in {"flush", "dtor"})
              => bufPos' = 0]_vars

\* A push has just flushed a partly filled buffer and written its run, one
\* of the two writes has failed, and bufPos is 0.
C12_Witness ==
    /\ sinkOp = "push"
    /\ nWrites = 2
    /\ writeFailed
    /\ Len(pushed) = BufSize + 1
    /\ handed = pushed
    /\ bufPos = 0

\* C13 (SpecSource): the cursors of a BufferedSource keep bufPosOut <=
\* bufPosIn <= capacity; no read returns with the window drained and the
\* cursors elsewhere than at 0, so that whenever no read is in progress
\* either bufPosOut < bufPosIn or both cursors are 0; and hasData() is
\* true in the first case and false in the second.
C13_CursorsOrdered ==
    /\ bufPosOut <= bufPosIn
    /\ bufPosIn <= BufSize
    /\ pc \in {"idle", "pull"} =>
          /\ bufPosOut < bufPosIn \/ (bufPosOut = 0 /\ bufPosIn = 0)
          /\ HasData(SrcState) <=> Window # <<>>
          /\ ~HasData(SrcState) <=> (bufPosOut = 0 /\ bufPosIn = 0)

\* The window has been filled more than once, partly served, and a last
\* read has drained it exactly: both cursors are back at 0.
C13_Witness ==
    /\ pc = "idle"
    /\ srcErr = "none"
    /\ Len(fdStream) > BufSize
    /\ delivered = fdStream
    /\ pullCount < BufSize
    /\ bufPosIn = 0
    /\ bufPosOut = 0
    /\ ~HasData(SrcState)

\* Some FdSink with warn set has a byte count above the threshold.
SomeWarnSinkAbove ==
    \E i \in 1..NumSinks : fds[i].warn /\ fds[i].written > threshold

\* C14 (SpecWarn): over the writes made on the FdSinks of one process,
\* warnLargeDump() is called at most once and the flag it sets is never
\* cleared; it is called in the very write, on a sink with warn set, that
\* first brings such a sink's byte count above the threshold, and in no
\* other; and every write adds its len to the byte count of its sink
\* whether writeFull then returns or throws.
C14_WarnsOnce ==
    /\ [](/\ diag <= 1
          /\ warned <=> (diag = 1)
          /\ warned <=> SomeWarnSinkAbove)
    /\ [][/\ warned => warned'
          /\ diag' >= diag
          /\ (diag' = diag + 1) <=>
                (/\ ~warned
                 /\ fds[lastW'.sink].warn
                 /\ fds'[lastW'.sink].written > threshold)
          /\ \A j \in 1..NumSinks :
                fds'[j].written =
                   fds[j].written + (IF j = lastW'.sink THEN lastW'.len ELSE 0)
         ]_vars

\* A sink without warn has gone above the threshold unnoticed, and the
\* last write, which has failed, has brought a sink with warn above the
\* threshold: the diagnostic has been emitted in that write.
C14_Witness ==
    /\ lastW.sink \in 1..NumSinks
    /\ ~lastW.ok
    /\ fds[lastW.sink].warn
    /\ fds[lastW.sink].written > threshold
    /\ fds[lastW.sink].written - lastW.len <= threshold
    /\ \A j \in 1..NumSinks :
          (j # lastW.sink /\ fds[j].warn) => fds[j].written <= threshold
    /\ \E j \in 1..NumSinks : ~fds[j].warn /\ fds[j].written > threshold
    /\ diag = 1
    /\ warned

\* The run of the push that a step makes: what the step adds to pushed.
PushedRun == Len(pushed') - Len(pushed)

\* C15 (SpecSink): no call on an FdSink lets a SysError of writeFull out:
\* every push and every flush returns normally; and once a write has
\* failed, a push is accepted as before: its bytes are in the buffer or
\* handed to FdSink::write when it returns, and the push that does not fit
\* below the capacity calls FdSink::write again.
C15_WriteFailureIsSwallowed ==
    /\ [](sinkExc = "none")
    /\ [][(writeFailed /\ PushedRun > 0) =>
             /\ sinkExc' = "none"
             /\ handed' \o SubSeq(buffer', 1, bufPos') = pushed'
             /\ bufPos + PushedRun >= BufSize => nWrites' > nWrites
         ]_vars

\* A write has failed, and the push made last has had its run written to
\* the descriptor, with success.
C15_Witness ==
    /\ sinkOp = "push"
    /\ sinkExc = "none"
    /\ writeFailed
    /\ lastWriteOk
    /\ nWrites = 2
    /\ Len(pushed) = 2 * BufSize
    /\ handed = pushed

\* What was left of the StringSource when the last call was made.
Remaining0 == Len(srcS) - opPos0

\* C16 (SpecStrSrc): pos stays within 0..size.  A read of len bytes made
\* with bytes left returns min(len, remaining) bytes, those at the cursor,
\* and advances pos by as many; a read made at pos = size throws EndOfFile
\* and leaves pos where it is.  A pull of no more bytes than are left
\* returns them; a pull of more stores the bytes that are left, leaves pos
\* at size and throws EndOfFile.
C16_StringSourceRead ==
    /\ 0 <= srcPos /\ srcPos <= Len(srcS)
    /\ (opKind = "read" /\ Remaining0 > 0) =>
          /\ opErr = "none"
          /\ opVal.n = Min(opVal.len, Remaining0)
          /\ opVal.data = SubSeq(srcS, opPos0 + 1, opPos0 + opVal.n)
          /\ srcPos = opPos0 + opVal.n
    /\ (opKind = "read" /\ Remaining0 = 0) =>
          /\ opErr = "EndOfFile"
          /\ srcPos = opPos0
    /\ (opKind = "pull" /\ opVal.len <= Remaining0) =>
          /\ opErr = "none"
          /\ opVal.data = SubSeq(srcS, opPos0 + 1, opPos0 + opVal.len)
          /\ srcPos = opPos0 + opVal.len
    /\ (opKind = "pull" /\ opVal.len > Remaining0) =>
          /\ opErr = "EndOfFile"
          /\ opVal.data = SubSeq(srcS, opPos0 + 1, Len(srcS))
          /\ srcPos = Len(srcS)

\* A pull made in the middle of the string, of more bytes than were left:
\* it has stored what was left and thrown EndOfFile.
C16_Witness ==
    /\ opKind = "pull"
    /\ opErr = "EndOfFile"
    /\ opPos0 > 0
    /\ opPos0 < Len(srcS)
    /\ opVal.len > Remaining0
    /\ opVal.n = Remaining0
    /\ srcPos = Len(srcS)

\* C17 (SpecSink): a flush(), the destructor's included, calls
\* FdSink::write not at all when bufPos is 0, and otherwise once, with the
\* buffered bytes, leaving bufPos at 0 whether the write succeeds or
\* fails; so in every reachable state a flush() that follows a flush()
\* calls FdSink::write no more and hands no byte a second time, whatever
\* happened to the write of the first.
C17_FlushHandsBytesOnce ==
    /\ [][sinkOp' \in {"flush", "dtor"} =>
             IF bufPos = 0
             THEN nWrites' = nWrites /\ handed' = handed
             ELSE /\ nWrites' = nWrites + 1
                  /\ handed' = handed \o Buffered
                  /\ bufPos' = 0
         ]_vars
    /\ [](\A ok1, ok2 \in BOOLEAN :
             LET first == Flush(SinkState, ok1)
                 second == Flush(first, ok2)
             IN /\ second.writes = first.writes
                /\ second.handed = first.handed)

\* A flush() of a partly filled buffer whose write has failed: the bytes
\* have been handed over once and bufPos is 0.
C17_Witness ==
    /\ sinkOp = "flush"
    /\ nWrites = 1
    /\ ~lastWriteOk
    /\ Len(pushed) > 0
    /\ Len(pushed) < BufSize
    /\ handed = pushed
    /\ bufPos = 0

\* The bytes of the run that a push step pushes.
RunOfStep == SubSeq(pushed', Len(pushed) + 1, Len(pushed'))

\* C18 (SpecSink), as claimed: a push of a run longer than the room left
\* in the buffer flushes and hands the run to FdSink::write without a
\* copy; a run that fits is copied into the buffer behind the bytes
\* buffered, with no write when room remains and, when it fills the buffer
\* exactly, with one write of BufSize bytes, the whole buffer.  The code
\* bypasses the buffer from bufPos + len = bufSize on, and TLC finds the
\* push that shows it.
C18_ExactFitIsCopied ==
    [][PushedRun > 0 =>
          IF PushedRun > BufSize - bufPos
          THEN /\ buffer' = buffer
               /\ handed' = handed \o Buffered \o RunOfStep
               /\ bufPos' = 0
          ELSE IF PushedRun = BufSize - bufPos
          THEN /\ SubSeq(buffer', 1, BufSize) = Buffered \o RunOfStep
               /\ nWrites' = nWrites + 1
               /\ handed' = handed \o Buffered \o RunOfStep
               /\ bufPos' = 0
          ELSE /\ SubSeq(buffer', 1, bufPos') = Buffered \o RunOfStep
               /\ nWrites' = nWrites
               /\ handed' = handed
      ]_vars

\* What a step adds to the bytes the descriptor has delivered, and to the
\* bytes read() has returned.
Fetched == SubSeq(fdStream', Len(fdStream) + 1, Len(fdStream'))
Returned == SubSeq(delivered', Len(delivered) + 1, Len(delivered'))

\* C19 (SpecSource): a read() calls readUnbuffered when and only when the
\* window is empty as it is entered; with bytes in the window it returns
\* bytes of the window and fetches none.  A fetch is made with every byte
\* fetched before already returned, it stores its bytes from offset 0 of
\* the buffer, and the read() that made it returns without another.
C19_RefillOnlyWhenEmpty ==
    [][/\ pc = "pull" =>
             /\ (pc' = "sysread") <=> (bufPosOut = bufPosIn)
             /\ fdStream' = fdStream
             /\ bufPosOut < bufPosIn =>
                   /\ Returned # <<>>
                   /\ Returned = SubSeq(Window, 1, Len(Returned))
       /\ fdStream' # fdStream =>
             /\ pc = "sysread"
             /\ bufPosOut = bufPosIn
             /\ delivered = fdStream
             /\ SubSeq(srcBuffer', 1, Len(Fetched)) = Fetched
             /\ pc' # "sysread"
             /\ Returned = SubSeq(Fetched, 1, Len(Returned))
      ]_vars

\* A read() has been served from the window alone, which the fetch of an
\* earlier read() had filled, and has left bytes in it.
C19_Witness ==
    /\ pc = "idle"
    /\ srcErr = "none"
    /\ sysRes = "none"
    /\ pullData # <<>>
    /\ Len(delivered) > Len(pullData)
    /\ bufPosOut > Len(pullData)
    /\ bufPosOut < bufPosIn

\* C20 (SpecSourceLive): provided ::read does not fail with EINTR for
\* ever, every pull that is under way comes to its end; it ends with the
\* count bytes stored or with an exception; and every read() of the pull
\* that returns has returned at least one byte and has lowered the number
\* of bytes still wanted by as many.
C20_PullTerminates ==
    /\ (pc # "idle") ~> (pc = "idle")
    /\ [](pc = "idle" => (srcErr # "none" \/ Len(pullData) = pullCount))
    /\ [][(pc # "idle" /\ pc' # "sysread") =>
             \/ srcErr' # "none"
             \/ /\ Len(Returned) >= 1
                /\ pullLen' = pullLen - Len(Returned)
                /\ pullLen' < pullLen
         ]_vars

\* A pull of more bytes than the buffer holds has returned them all, its
\* last read() after ::read had failed with EINTR as often as may be.
C20_Witness ==
    /\ pc = "idle"
    /\ srcErr = "none"
    /\ pullCount = MaxPull
    /\ Len(pullData) = pullCount
    /\ eintrs = MaxEintr
    /\ sysRes = "data"

==============================================================================
